---- MODULE Spec2Model ----
(***************************************************************************)
(* Model of ipa_uk.ipa (src/ipa_uk/__init__.py): the Ukrainian             *)
(* orthography -> IPA rewriting pipeline.                                  *)
(*                                                                         *)
(* A text is a sequence of code points.  A code point is written as a      *)
(* string: an ASCII character stands for itself, any other code point is   *)
(* written by an ASCII name:                                               *)
(*   Cyrillic lower case  cy_a cy_b cy_v cy_h(U+0433) cy_g(U+0491) cy_d    *)
(*     cy_e cy_ye cy_zh cy_z cy_y(U+0438) cy_i(U+0456) cy_yi cy_j cy_k     *)
(*     cy_l cy_m cy_n cy_o cy_p cy_r cy_s cy_t cy_u cy_f cy_kh cy_ts cy_ch *)
(*     cy_sh cy_shch cy_soft cy_yu cy_ya; upper case CY_A ...;             *)
(*     precomposed U+0450 cy_e_grave, U+0400 CY_E_grave,                   *)
(*     U+045D cy_y_grave, U+040D CY_Y_grave                                *)
(*   acute U+0301, grave U+0300, rsquo U+2019, nl U+000A, tab U+0009       *)
(*   IPA: eps U+025B, smallI U+026A, openo U+0254, turneda U+0250,         *)
(*     upsilon U+028A, ezh U+0292, esh U+0283, scriptg U+0261 (the ASCII   *)
(*     letter g is "g"), hookh U+0266, vhook U+028B, beta U+03B2,          *)
(*     downtack U+031E, turnedw U+028D, darkl U+026B, pal U+02B2,          *)
(*     long U+02D0, tie U+0361, primary U+02C8, secondary U+02CC,          *)
(*     undertie U+2040, nonsyl U+032F                                      *)
(***************************************************************************)
EXTENDS Integers, Sequences, FiniteSets, TLC

VARIABLES given, text, check_accent, pc, tokens, phonetic, pronuns, result

vars == <<given, text, check_accent, pc, tokens, phonetic, pronuns, result>>

ACUTE == "acute"
GRAVE == "grave"

(***************************************************************************)
(* Python's re, as far as the patterns of the source use it.  A pattern is *)
(* a sequence of items; an item matches between lo and hi characters of a  *)
(* class (greedily, backtracking), or the text an earlier item matched.    *)
(***************************************************************************)
\* hi = 0 stands for "no upper limit"
One(S)     == [k |-> "in",    set |-> S, lo |-> 1, hi |-> 1]
Opt(S)     == [k |-> "in",    set |-> S, lo |-> 0, hi |-> 1]
Plus(S)    == [k |-> "in",    set |-> S, lo |-> 1, hi |-> 0]
Star(S)    == [k |-> "in",    set |-> S, lo |-> 0, hi |-> 0]
NotOne(S)  == [k |-> "notin", set |-> S, lo |-> 1, hi |-> 1]
NotOpt(S)  == [k |-> "notin", set |-> S, lo |-> 0, hi |-> 1]
NotPlus(S) == [k |-> "notin", set |-> S, lo |-> 1, hi |-> 0]
Dot        == NotOne({"nl"})
BackRef(j) == [k |-> "ref",   set |-> {}, lo |-> j, hi |-> j]
Lit(str)   == [i \in 1..Len(str) |-> One({str[i]})]

\* a replacement template: group references (item numbers) and literal text
G(j)   == [g |-> j, t |-> <<>>]
T(str) == [g |-> 0, t |-> str]

ItemAccepts(it, c) ==
    IF it.k = "in" THEN c \in it.set ELSE c \notin it.set

RECURSIVE MaxRun(_, _, _, _)
\* how many characters from position i on the item can take, at most
MaxRun(s, it, i, n) ==
    IF (it.hi = 0 \/ n < it.hi) /\ i + n <= Len(s) /\ ItemAccepts(it, s[i + n])
    THEN MaxRun(s, it, i, n + 1)
    ELSE n

\* b holds the start of every item matched so far; i is where the next starts
GroupText(s, b, i, j) ==
    SubSeq(s, b[j], (IF j = Len(b) THEN i ELSE b[j + 1]) - 1)

RECURSIVE MatchAt(_, _, _, _, _)
RECURSIVE TryCount(_, _, _, _, _, _)
\* the match of pat[k..] at position i, as the boundaries of the items
\* (item j matched s[b[j] .. b[j+1]-1]), or <<>> when there is none
MatchAt(s, pat, k, i, b) ==
    IF k > Len(pat) THEN Append(b, i)
    ELSE IF pat[k].k = "ref"
    THEN LET g == GroupText(s, b, i, pat[k].lo)
         IN  IF i + Len(g) - 1 <= Len(s) /\ SubSeq(s, i, i + Len(g) - 1) = g
             THEN MatchAt(s, pat, k + 1, i + Len(g), Append(b, i))
             ELSE <<>>
    ELSE TryCount(s, pat, k, i, b, MaxRun(s, pat[k], i, 0))

TryCount(s, pat, k, i, b, n) ==
    IF n < pat[k].lo THEN <<>>
    ELSE LET r == MatchAt(s, pat, k + 1, i + n, Append(b, i))
         IN  IF r # <<>> THEN r ELSE TryCount(s, pat, k, i, b, n - 1)

Group(s, b, j) == SubSeq(s, b[j], b[j + 1] - 1)

RECURSIVE Expand(_, _, _, _)
Expand(s, b, rep, n) ==
    IF n > Len(rep) THEN <<>>
    ELSE (IF rep[n].g = 0 THEN rep[n].t ELSE Group(s, b, rep[n].g))
         \o Expand(s, b, rep, n + 1)

RECURSIVE SubFrom(_, _, _, _)
\* re.sub: leftmost non-overlapping matches, scanning left to right (no
\* pattern of the source matches the empty string)
SubFrom(s, pat, rep, i) ==
    IF i > Len(s) THEN <<>>
    ELSE LET b == MatchAt(s, pat, 1, i, <<>>)
         IN  IF b = <<>> \/ b[Len(b)] = i
             THEN <<s[i]>> \o SubFrom(s, pat, rep, i + 1)
             ELSE Expand(s, b, rep, 1) \o SubFrom(s, pat, rep, b[Len(b)])

Sub(pat, rep, s) == SubFrom(s, pat, rep, 1)

RECURSIVE ApplyRules(_, _, _)
\* for regex, replacement in table.items(): s = re.sub(regex, replacement, s)
ApplyRules(rules, n, s) ==
    IF n > Len(rules) THEN s
    ELSE LET s1 == Sub(rules[n][1], rules[n][2], s)
         IN  IF Len(s1) >= 0 THEN ApplyRules(rules, n + 1, s1) ELSE s1

RECURSIVE CountIn(_, _, _)
\* len(re.findall("[...]", s))
CountIn(s, S, i) ==
    IF i > Len(s) THEN 0
    ELSE (IF s[i] \in S THEN 1 ELSE 0) + CountIn(s, S, i + 1)

Contains(s, c) == \E i \in 1..Len(s) : s[i] = c

(***************************************************************************)
(* Character classes and rule tables of ipa().                             *)
(***************************************************************************)
vowel_no_i == {"a", "eps", "smallI", "u", "openo", "turneda", "o", "upsilon", "e"}
vowel == vowel_no_i \cup {"i"}
consonant_no_w ==
    {"b", "d", "z", "ezh", "scriptg", "hookh", "m", "n", "l", "r", "p", "f",
     "t", "s", "k", "x", "esh", "j"}
consonant == consonant_no_w \cup {"vhook", "beta", "downtack", "w", "turnedw"}
palatalizable ==
    {"t", "d", "s", "z", "n", "l", "r", "b", "p", "vhook", "f", "scriptg",
     "m", "k", "hookh", "x", "esh", "ezh"}
voiced_obstruent == {"b", "d", "z", "ezh", "scriptg", "hookh"}

\* the class [a eps i smallI u openo] of the vowels the mapper produces
short_vowel == {"a", "eps", "i", "smallI", "u", "openo"}
stress_mark == {"primary", "secondary"}
stress_or_tie == {"primary", "secondary", "undertie"}
whitespace == {" ", "nl", "tab"}

voicing == <<
    << <<"p">>, <<"b">> >>,
    << <<"f">>, <<"v">> >>,
    << <<"t">>, <<"d">> >>,
    << <<"t", "pal">>, <<"d", "pal">> >>,
    << <<"s">>, <<"z">> >>,
    << <<"s", "pal">>, <<"z", "pal">> >>,
    << <<"esh">>, <<"ezh">> >>,
    << <<"k">>, <<"scriptg">> >>,
    << <<"x">>, <<"hookh">> >>,
    << <<"t", "tie", "s">>, <<"d", "tie", "z">> >>,
    << <<"t", "tie", "s", "pal">>, <<"d", "tie", "z", "pal">> >>,
    << <<"t", "tie", "esh">>, <<"d", "tie", "ezh">> >>,
    << <<"esh", "t", "tie", "esh">>, <<"ezh", "d", "tie", "ezh">> >> >>

\* "gr" and "gl" are written in the source with the ASCII letter g
perm_syl_onset == {
    <<"s", "p", "r">>, <<"s", "t", "r">>, <<"s", "k", "r">>,
    <<"s", "p", "l">>, <<"s", "k", "l">>,
    <<"s", "p">>, <<"s", "t">>, <<"s", "k">>, <<"s", "f">>, <<"s", "x">>,
    <<"p", "r">>, <<"b", "r">>, <<"t", "r">>, <<"d", "r">>, <<"k", "r">>,
    <<"g", "r">>, <<"hookh", "r">>, <<"f", "r">>, <<"x", "r">>,
    <<"p", "l">>, <<"b", "l">>, <<"k", "l">>, <<"g", "l">>,
    <<"hookh", "l">>, <<"f", "l">>, <<"x", "l">> }

grave_decomposer(c) ==
    CASE c = "cy_e_grave" -> <<"cy_e", GRAVE>>
      [] c = "CY_E_grave" -> <<"CY_E", GRAVE>>
      [] c = "cy_y_grave" -> <<"cy_y", GRAVE>>
      [] c = "CY_Y_grave" -> <<"CY_Y", GRAVE>>
      [] OTHER -> <<c>>

RECURSIVE decompose_from(_, _)
decompose_from(word, i) ==
    IF i > Len(word) THEN <<>>
    ELSE grave_decomposer(word[i]) \o decompose_from(word, i + 1)

decompose_grave(word) == decompose_from(word, 1)

\* str.lower() on the code points of the model
lower_char(c) ==
    CASE c = "CY_A" -> "cy_a" [] c = "CY_B" -> "cy_b" [] c = "CY_V" -> "cy_v"
      [] c = "CY_H" -> "cy_h" [] c = "CY_G" -> "cy_g" [] c = "CY_D" -> "cy_d"
      [] c = "CY_E" -> "cy_e" [] c = "CY_YE" -> "cy_ye" [] c = "CY_ZH" -> "cy_zh"
      [] c = "CY_Z" -> "cy_z" [] c = "CY_Y" -> "cy_y" [] c = "CY_I" -> "cy_i"
      [] c = "CY_YI" -> "cy_yi" [] c = "CY_J" -> "cy_j" [] c = "CY_K" -> "cy_k"
      [] c = "CY_L" -> "cy_l" [] c = "CY_M" -> "cy_m" [] c = "CY_N" -> "cy_n"
      [] c = "CY_O" -> "cy_o" [] c = "CY_P" -> "cy_p" [] c = "CY_R" -> "cy_r"
      [] c = "CY_S" -> "cy_s" [] c = "CY_T" -> "cy_t" [] c = "CY_U" -> "cy_u"
      [] c = "CY_F" -> "cy_f" [] c = "CY_KH" -> "cy_kh" [] c = "CY_TS" -> "cy_ts"
      [] c = "CY_CH" -> "cy_ch" [] c = "CY_SH" -> "cy_sh"
      [] c = "CY_SHCH" -> "cy_shch" [] c = "CY_SOFT" -> "cy_soft"
      [] c = "CY_YU" -> "cy_yu" [] c = "CY_YA" -> "cy_ya"
      [] c = "CY_E_grave" -> "cy_e_grave" [] c = "CY_Y_grave" -> "cy_y_grave"
      [] OTHER -> c

lower(s) == [i \in 1..Len(s) |-> lower_char(s[i])]

normalize(s) == lower(decompose_grave(s))

vowel_letter ==
    {"cy_a", "cy_e", "cy_ye", "cy_y", "cy_i", "cy_yi", "cy_o", "cy_u",
     "cy_yu", "cy_ya"}

\* a variant of the check that already asks for an accent on one vowel letter
accent_is_missing_one_vowel(s, ca) ==
    /\ ca
    /\ ~Contains(s, ACUTE) /\ ~Contains(s, GRAVE)
    /\ CountIn(s, vowel_letter, 1) > 0

\* the condition under which ipa raises AccentIsMissing (text normalized)
accent_is_missing(s, ca) ==
    /\ ca
    /\ ~Contains(s, ACUTE) /\ ~Contains(s, GRAVE)
    /\ CountIn(s, vowel_letter, 1) > 1

canonicalize_spaces(s) == Sub(<<Plus(whitespace)>>, <<T(<<" ">>)>>, s)

RECURSIVE split_from(_, _, _)
\* re.split("[\s\-]+", s): the pieces between the runs of delimiters, the
\* empty piece before a leading run and after a trailing run included
split_from(s, i, cur) ==
    IF i > Len(s) THEN <<cur>>
    ELSE IF s[i] \in whitespace \cup {"-"}
    THEN <<cur>> \o split_from(s,
             i + MaxRun(s, Plus(whitespace \cup {"-"}), i, 0), <<>>)
    ELSE split_from(s, i + 1, Append(cur, s[i]))

split(s) == split_from(s, 1, <<>>)

\* a literal pattern replaced by a literal text
LitRule(key, replacement) == <<Lit(key), <<T(replacement)>>>>

cons_bvhgd == {"cy_b", "cy_v", "cy_h", "cy_g", "cy_d"}
cons_geminable ==
    {"cy_j", "cy_k", "cy_l", "cy_m", "cy_n", "cy_p", "cy_r", "cy_s", "cy_t",
     "cy_f", "cy_kh", "cy_ts", "cy_ch", "cy_sh", "cy_shch"}

orthographic_replacements == <<
    LitRule(<<"cy_n", "cy_t", "cy_s", "cy_soft", "cy_k">>,
            <<"cy_n", "cy_soft", "cy_s", "cy_soft", "cy_k">>),
    LitRule(<<"cy_s", "cy_t", "cy_s", "cy_soft", "cy_k">>,
            <<"cy_s", "cy_soft", "cy_k">>),
    LitRule(<<"cy_n", "cy_t", "cy_s", "cy_t">>, <<"cy_n", "cy_s", "cy_t">>),
    LitRule(<<"cy_s", "cy_t", "cy_ch">>, <<"cy_sh", "cy_ch">>),
    LitRule(<<"cy_s", "cy_t", "cy_d">>, <<"cy_z", "cy_d">>),
    LitRule(<<"cy_s", "cy_t", "cy_s">>, <<"cy_s", "long">>),
    LitRule(<<"#", "cy_z", "cy_sh">>, <<"#", "cy_sh", "long">>),
    LitRule(<<"cy_z", "cy_sh">>, <<"cy_zh", "cy_sh">>),
    LitRule(<<"#", "cy_z", "cy_ch">>, <<"#", "cy_sh", "cy_ch">>),
    LitRule(<<"cy_z", "cy_ch">>, <<"cy_zh", "cy_ch">>),
    << <<One(cons_bvhgd), BackRef(1)>>, <<G(1), T(<<"long">>)>> >>,
    << <<NotPlus({"cy_d"}), One({"cy_zh"}), One({"cy_zh"})>>,
       <<G(1), T(<<"cy_zh", "long">>)>> >>,
    << <<NotPlus({"cy_d"}), One({"cy_z"}), One({"cy_z"})>>,
       <<G(1), T(<<"cy_z", "long">>)>> >>,
    << <<One(cons_geminable), BackRef(1)>>, <<G(1), T(<<"long">>)>> >>,
    LitRule(<<"cy_d", "cy_zh", "cy_d", "cy_zh">>, <<"cy_d", "cy_zh", "long">>),
    LitRule(<<"cy_d", "cy_z", "cy_d", "cy_z">>, <<"cy_d", "cy_z", "long">>) >>

\* phonetic_chars_map[0]: character sequences of three
phonetic_chars_map_3 == <<
    LitRule(<<"cy_d", "cy_z", "cy_soft">>, <<"d", "tie", "z", "pal">>),
    LitRule(<<"cy_t", "cy_soft", "cy_s">>, <<"t", "tie", "s", "pal", "long">>) >>

\* phonetic_chars_map[1]: character sequences of two
phonetic_chars_map_2 == <<
    LitRule(<<"cy_d", "cy_zh">>, <<"d", "tie", "ezh">>),
    LitRule(<<"cy_d", "cy_z">>, <<"d", "tie", "z">>),
    LitRule(<<"cy_d", "cy_s">>, <<"d", "tie", "z", "s">>),
    LitRule(<<"cy_d", "cy_sh">>, <<"d", "tie", "ezh", "esh">>),
    LitRule(<<"cy_d", "cy_ch">>, <<"d", "tie", "ezh", "t", "tie", "esh">>),
    LitRule(<<"cy_d", "cy_ts">>, <<"d", "tie", "z", "t", "tie", "s">>),
    LitRule(<<"cy_t", "cy_s">>, <<"t", "tie", "s">>),
    LitRule(<<"cy_t", "cy_sh">>, <<"t", "tie", "esh", "esh">>),
    LitRule(<<"cy_t", "cy_ch">>, <<"t", "tie", "esh", "long">>),
    LitRule(<<"cy_t", "cy_ts">>, <<"t", "tie", "s", "long">>) >>

\* phonetic_chars_map[2]: single characters
phonetic_chars_map_1 == <<
    LitRule(<<"cy_a">>, <<"a">>),
    LitRule(<<"cy_b">>, <<"b">>),
    LitRule(<<"cy_v">>, <<"vhook">>),
    LitRule(<<"cy_h">>, <<"hookh">>),
    LitRule(<<"cy_g">>, <<"scriptg">>),
    LitRule(<<"cy_d">>, <<"d">>),
    LitRule(<<"cy_e">>, <<"eps">>),
    LitRule(<<"cy_ye">>, <<"j", "eps">>),
    LitRule(<<"cy_zh">>, <<"ezh">>),
    LitRule(<<"cy_z">>, <<"z">>),
    LitRule(<<"cy_y">>, <<"smallI">>),
    LitRule(<<"cy_i">>, <<"i">>),
    LitRule(<<"cy_yi">>, <<"j", "i">>),
    LitRule(<<"cy_j">>, <<"j">>),
    LitRule(<<"cy_k">>, <<"k">>),
    LitRule(<<"cy_l">>, <<"l">>),
    LitRule(<<"cy_m">>, <<"m">>),
    LitRule(<<"cy_n">>, <<"n">>),
    LitRule(<<"cy_o">>, <<"openo">>),
    LitRule(<<"cy_p">>, <<"p">>),
    LitRule(<<"cy_r">>, <<"r">>),
    LitRule(<<"cy_s">>, <<"s">>),
    LitRule(<<"cy_t">>, <<"t">>),
    LitRule(<<"cy_u">>, <<"u">>),
    LitRule(<<"cy_f">>, <<"f">>),
    LitRule(<<"cy_kh">>, <<"x">>),
    LitRule(<<"cy_ts">>, <<"t", "tie", "s">>),
    LitRule(<<"cy_ch">>, <<"t", "tie", "esh">>),
    LitRule(<<"cy_sh">>, <<"esh">>),
    LitRule(<<"cy_shch">>, <<"esh", "t", "tie", "esh">>),
    LitRule(<<"cy_soft">>, <<"pal">>),
    LitRule(<<"cy_yu">>, <<"j", "u">>),
    LitRule(<<"cy_ya">>, <<"j", "a">>),
    LitRule(<<"rsquo">>, <<"j">>),
    LitRule(<<ACUTE>>, <<"primary">>),
    LitRule(<<GRAVE>>, <<"secondary">>) >>

phonetic_chars_map ==
    <<phonetic_chars_map_3, phonetic_chars_map_2, phonetic_chars_map_1>>

(***************************************************************************)
(* The steps of the loop body of ipa(), one operator per block of the      *)
(* source.                                                                 *)
(***************************************************************************)
wrap(tok) == <<"#">> \o tok \o <<"#">>

orthographic(s) == ApplyRules(orthographic_replacements, 1, s)

remap_apostrophe(s) == Sub(Lit(<<"'">>), <<T(<<"%">>)>>, s)

\* a variant of the mapper that runs the single-character table first
map_chars_singles_first(s) ==
    ApplyRules(phonetic_chars_map[1], 1,
        ApplyRules(phonetic_chars_map[2], 1,
            ApplyRules(phonetic_chars_map[3], 1, s)))

map_chars(s) ==
    ApplyRules(phonetic_chars_map[3], 1,
        ApplyRules(phonetic_chars_map[2], 1,
            ApplyRules(phonetic_chars_map[1], 1, s)))

\* a variant that leaves the stress mark behind its vowel
stress_before_vowel_skipped(s) == s

stress_before_vowel(s) ==
    Sub(<<One(short_vowel), One(stress_mark)>>, <<G(2), G(1)>>, s)

number_of_vowels(s) == CountIn(s, short_vowel, 1)

monosyllabic(s, ca) ==
    IF number_of_vowels(s) = 1 /\ ca
    THEN Sub(<<One(short_vowel)>>, <<T(<<"undertie">>), G(1)>>, s)
    ELSE s

palatalize(s) ==
    LET s1 == Sub(<<One(palatalizable), Opt({"long"}), Opt(stress_or_tie),
                    One({"i"})>>,
                  <<G(1), T(<<"pal">>), G(2), G(3), T(<<"i">>)>>, s)
        s2 == Sub(<<One(palatalizable), Opt({"long"}), One({"j"})>>,
                  <<G(1), T(<<"pal">>), G(2)>>, s1)
    IN  Sub(Lit(<<"pal", "long", "j">>), <<T(<<"pal", "long">>)>>, s2)

simplify_sts(s) ==
    Sub(Lit(<<"s", "t", "tie", "s", "pal">>) \o <<Opt({"long"})>>,
        <<T(<<"s", "pal", "t", "tie", "s", "pal">>)>>, s)

voicing_rule(pair) ==
    <<Lit(pair[1]) \o <<Plus(voiced_obstruent)>>,
      <<T(pair[2]), G(Len(pair[1]) + 1)>>>>

voice(s) == ApplyRules([n \in 1..Len(voicing) |-> voicing_rule(voicing[n])], 1, s)

dental == {"t", "d", "s", "z", "n", "l"}

soften_rules == <<
    << <<One(dental), Dot, One({"pal"})>>,
       <<G(1), T(<<"pal">>), G(2), T(<<"pal">>)>> >>,
    << <<One(dental)>> \o Lit(<<"t", "tie", "s", "pal">>),
       <<G(1), T(<<"pal", "t", "tie", "s", "pal">>)>> >>,
    << <<One(dental)>> \o Lit(<<"d", "tie", "z", "pal">>),
       <<G(1), T(<<"pal", "d", "tie", "z", "pal">>)>> >>,
    << Lit(<<"t", "tie", "s">>) \o <<Dot, One({"pal"})>>,
       <<T(<<"t", "tie", "s", "pal">>), G(4), T(<<"pal">>)>> >>,
    << Lit(<<"d", "tie", "z">>) \o <<Dot, One({"pal"})>>,
       <<T(<<"d", "tie", "z", "pal">>), G(4), T(<<"pal">>)>> >>,
    LitRule(<<"d", "tie", "z", "t", "tie", "s", "pal">>,
            <<"d", "tie", "z", "pal", "t", "tie", "s", "pal">>),
    LitRule(<<"t", "tie", "s", "d", "tie", "z", "pal">>,
            <<"t", "tie", "s", "pal", "d", "tie", "z", "pal">>) >>

soften(s) == ApplyRules(soften_rules, 1, s)

hushing_rules == <<
    LitRule(<<"ezh", "t", "tie", "s", "pal">>,
            <<"z", "pal", "t", "tie", "s", "pal">>),
    LitRule(<<"t", "tie", "esh", "t", "tie", "s", "pal">>,
            <<"t", "tie", "s", "pal", "long">>),
    LitRule(<<"esh", "t", "tie", "s", "pal">>,
            <<"s", "pal", "t", "tie", "s", "pal">>),
    LitRule(<<"esh", "s", "pal">>, <<"s", "pal", "long">>) >>

hushing(s) == ApplyRules(hushing_rules, 1, s)

hissing_rules == <<
    LitRule(<<"z", "ezh">>, <<"ezh", "long">>),
    LitRule(<<"s", "esh">>, <<"esh", "long">>),
    LitRule(<<"z", "t", "tie", "esh">>, <<"ezh", "t", "tie", "esh">>),
    LitRule(<<"z", "d", "tie", "ezh">>, <<"ezh", "d", "tie", "ezh">>),
    LitRule(<<"t", "tie", "ezh">>, <<"d", "tie", "ezh">>),
    LitRule(<<"t", "tie", "z">>, <<"d", "tie", "z">>) >>

hissing(s) == ApplyRules(hissing_rules, 1, s)

depalatalize(s) ==
    Sub(<<NotPlus(short_vowel), One({"pal"}), NotPlus(short_vowel), One({"pal"}),
          NotPlus(short_vowel), One({"pal"})>>,
        <<G(1), G(3), T(<<"pal">>), G(5), T(<<"pal">>)>>, s)

\* a variant that reduces every a, the stressed ones too
reduce_a_everywhere(s) == Sub(<<One({"a"})>>, <<T(<<"turneda">>)>>, s)

reduce_a(s) ==
    Sub(<<NotOne(stress_or_tie), One({"a"})>>, <<G(1), T(<<"turneda">>)>>, s)

reduce_u(s) ==
    Sub(<<NotOne(stress_or_tie), One({"u"})>>, <<G(1), T(<<"upsilon">>)>>, s)

reduce_a_u(s) == reduce_u(reduce_a(s))

raise_o_class ==
    {"b", "d", "z", "ezh", "scriptg", "hookh", "m", "n", "l", "r", "p", "f",
     "t", "s", "k", "x", "pal", "esh", "tie"}

raise_o(s) ==
    Sub(<<One({"openo"}), Plus(raise_o_class), One(stress_or_tie),
          One({"u", "i", "upsilon"})>>,
        <<T(<<"o">>), G(2), G(3), G(4)>>, s)

reduce_e(s) ==
    Sub(<<NotOne(stress_or_tie), One({"eps"})>>, <<G(1), T(<<"e">>)>>, s)

remove_undertie(s) == Sub(Lit(<<"undertie">>), <<>>, s)

v_allophones(s) ==
    LET s1 == Sub(<<One(vowel), One({"vhook"}), One(consonant_no_w \cup {"#"})>>,
                  <<G(1), T(<<"u", "nonsyl">>), G(3)>>, s)
        s2 == Sub(<<One({"vhook"}), Opt(stress_mark),
                    One({"openo", "u", "o", "upsilon", "b", "d", "z", "ezh",
                         "scriptg", "hookh", "m", "n", "l", "r"})>>,
                  <<T(<<"w">>), G(2), G(3)>>, s1)
    IN  Sub(<<One({"vhook"}), One({"p", "f", "t", "s", "k", "x", "esh"})>>,
            <<T(<<"turnedw">>), G(2)>>, s2)

j_allophones(s) ==
    LET s1 == Sub(<<One(vowel), One({"j"}), One(consonant_no_w \cup {"#"})>>,
                  <<G(1), T(<<"i", "nonsyl">>), G(3)>>, s)
    IN  Sub(<<One({"#"}), One({"j"}), One(consonant_no_w)>>,
            <<T(<<"#", "i", "nonsyl">>), G(3)>>, s1)

\* a variant that leaves the apostrophe placeholder in the buffer
remove_apostrophe_skipped(s) == s

remove_apostrophe(s) == Sub(Lit(<<"%">>), <<>>, s)

not_boundary_or_vowel == {"#"} \cup vowel

stress_step1(s) ==
    Sub(<<NotOpt(not_boundary_or_vowel), Star({"pal", "long"}), One(stress_mark)>>,
        <<G(3), G(1), G(2)>>, s)

stress_step2(s) ==
    Sub(<<NotOne(not_boundary_or_vowel), One({"tie"}), One(stress_mark)>>,
        <<G(3), G(1), G(2)>>, s)

onset_replacement(a, aj, b, bj, stress, c) ==
    IF a \o b \o c \in perm_syl_onset
    THEN stress \o a \o aj \o b \o bj \o c
    ELSE IF b \o c \in perm_syl_onset \/ c = <<"j">>
    THEN a \o aj \o stress \o b \o bj \o c
    ELSE a \o aj \o b \o bj \o stress \o c

onset_pattern ==
    <<Dot, Opt({"pal"}), One(consonant), Opt({"pal"}), One(stress_mark),
      One(consonant)>>

RECURSIVE onset_from(_, _)
\* pattern.sub(onset_replacement, phonetic)
onset_from(s, i) ==
    IF i > Len(s) THEN <<>>
    ELSE LET m == MatchAt(s, onset_pattern, 1, i, <<>>)
         IN  IF m = <<>>
             THEN <<s[i]>> \o onset_from(s, i + 1)
             ELSE onset_replacement(Group(s, m, 1), Group(s, m, 2),
                      Group(s, m, 3), Group(s, m, 4), Group(s, m, 5),
                      Group(s, m, 6))
                  \o onset_from(s, m[Len(m)])

stress_step3(s) == onset_from(s, 1)

stress_step4(s) ==
    LET s1 == Sub(<<NotOne(not_boundary_or_vowel), One({"tie"}), One(stress_mark),
                    Dot, Opt({"pal"}), One({"j"})>>,
                  <<G(3), G(1), G(2), G(4), G(5), G(6)>>, s)
    IN  Sub(<<NotOne(not_boundary_or_vowel), One({"tie"}), One(stress_mark),
              Dot, Opt({"pal"})>>,
            <<G(1), G(2), G(4), G(5), G(3)>>, s1)

stress_step5(s) ==
    Sub(<<One({"#"}), NotPlus(not_boundary_or_vowel), One(stress_mark)>>,
        <<T(<<"#">>), G(3), G(2)>>, s)

stress_step6(s) ==
    Sub(<<One({"#"}), One({"u", "i"}), One({"nonsyl"}), One(stress_mark)>>,
        <<T(<<"#">>), G(4), G(2), G(3)>>, s)

merge_pal_long(s) ==
    Sub(<<Opt({"pal"}), One({"long"}), One({"pal"})>>, <<T(<<"pal", "long">>)>>, s)

dark_l(s) == Sub(<<One({"l"}), NotOne({"pal"})>>, <<T(<<"darkl">>), G(2)>>, s)

\* the blocks of the loop body, in the order of the source
stage_order ==
    <<"orthographic", "remap_apostrophe", "map_chars", "stress_before_vowel",
      "monosyllabic", "palatalize", "simplify_sts", "voice", "soften",
      "hushing", "hissing", "depalatalize", "reduce_a_u", "raise_o",
      "reduce_e", "remove_undertie", "v_allophones", "j_allophones",
      "remove_apostrophe", "stress_step1", "stress_step2", "stress_step3",
      "stress_step4", "stress_step5", "stress_step6", "merge_pal_long",
      "dark_l">>

apply_stage(name, s, ca) ==
    CASE name = "orthographic" -> orthographic(s)
      [] name = "remap_apostrophe" -> remap_apostrophe(s)
      [] name = "map_chars" -> map_chars(s)
      [] name = "stress_before_vowel" -> stress_before_vowel(s)
      [] name = "monosyllabic" -> monosyllabic(s, ca)
      [] name = "palatalize" -> palatalize(s)
      [] name = "simplify_sts" -> simplify_sts(s)
      [] name = "voice" -> voice(s)
      [] name = "soften" -> soften(s)
      [] name = "hushing" -> hushing(s)
      [] name = "hissing" -> hissing(s)
      [] name = "depalatalize" -> depalatalize(s)
      [] name = "reduce_a_u" -> reduce_a_u(s)
      [] name = "raise_o" -> raise_o(s)
      [] name = "reduce_e" -> reduce_e(s)
      [] name = "remove_undertie" -> remove_undertie(s)
      [] name = "v_allophones" -> v_allophones(s)
      [] name = "j_allophones" -> j_allophones(s)
      [] name = "remove_apostrophe" -> remove_apostrophe(s)
      [] name = "stress_step1" -> stress_step1(s)
      [] name = "stress_step2" -> stress_step2(s)
      [] name = "stress_step3" -> stress_step3(s)
      [] name = "stress_step4" -> stress_step4(s)
      [] name = "stress_step5" -> stress_step5(s)
      [] name = "stress_step6" -> stress_step6(s)
      [] name = "merge_pal_long" -> merge_pal_long(s)
      [] name = "dark_l" -> dark_l(s)

RECURSIVE run_stages(_, _, _, _)
\* the blocks first..last of the loop body applied to the buffer s
run_stages(first, last, s, ca) ==
    IF first > last THEN s
    ELSE LET s1 == apply_stage(stage_order[first], s, ca)
         IN  IF Len(s1) >= 0 THEN run_stages(first + 1, last, s1, ca) ELSE s1

\* one pass of the loop body for the piece tok
transcribe(tok, ca) == run_stages(1, Len(stage_order), wrap(tok), ca)

RECURSIVE join_from(_, _)
join_from(ps, i) ==
    IF i > Len(ps) THEN <<>>
    ELSE (IF i > 1 THEN <<" ">> ELSE <<>>) \o ps[i] \o join_from(ps, i + 1)

\* " ".join(pronuns).replace("#", "")
join(ps) == SelectSeq(join_from(ps, 1), LAMBDA c : c # "#")

\* the value ipa(t, ca) returns when it does not raise
ipa(t, ca) ==
    LET ps == split(canonicalize_spaces(normalize(t)))
    IN  join([n \in 1..Len(ps) |-> transcribe(ps[n], ca)])

(***************************************************************************)
(* The call ipa(given, check_accent) as a state machine: pc is the block   *)
(* of the source that runs next.  text, phonetic and pronuns are the       *)
(* variables of the source; tokens are the pieces the for loop has still   *)
(* to visit; given is the argument as the caller passed it.                *)
(***************************************************************************)
Normalize ==
    /\ pc = "start"
    /\ text' = normalize(text)
    /\ pc' = "check_accent"
    /\ UNCHANGED <<given, check_accent, tokens, phonetic, pronuns, result>>

RaiseAccentIsMissing ==
    /\ pc = "check_accent"
    /\ accent_is_missing(text, check_accent)
    /\ pc' = "raised"
    /\ UNCHANGED <<given, text, check_accent, tokens, phonetic, pronuns, result>>

AccentPresent ==
    /\ pc = "check_accent"
    /\ ~accent_is_missing(text, check_accent)
    /\ pc' = "canonicalize_spaces"
    /\ UNCHANGED <<given, text, check_accent, tokens, phonetic, pronuns, result>>

CanonicalizeSpaces ==
    /\ pc = "canonicalize_spaces"
    /\ text' = canonicalize_spaces(text)
    /\ pc' = "split"
    /\ UNCHANGED <<given, check_accent, tokens, phonetic, pronuns, result>>

Split ==
    /\ pc = "split"
    /\ tokens' = split(text)
    /\ pc' = "for"
    /\ UNCHANGED <<given, text, check_accent, phonetic, pronuns, result>>

Wrap ==
    /\ pc = "for"
    /\ tokens # <<>>
    /\ phonetic' = wrap(Head(tokens))
    /\ tokens' = Tail(tokens)
    /\ pc' = "orthographic"
    /\ UNCHANGED <<given, text, check_accent, pronuns, result>>

\* lines 244-245
Orthographic ==
    /\ pc = "orthographic"
    /\ phonetic' = orthographic(phonetic)
    /\ pc' = "remap_apostrophe"
    /\ UNCHANGED <<given, text, check_accent, tokens, pronuns, result>>

\* lines 248
RemapApostrophe ==
    /\ pc = "remap_apostrophe"
    /\ phonetic' = remap_apostrophe(phonetic)
    /\ pc' = "map_chars"
    /\ UNCHANGED <<given, text, check_accent, tokens, pronuns, result>>

\* lines 251-253
MapChars ==
    /\ pc = "map_chars"
    /\ phonetic' = map_chars(phonetic)
    /\ pc' = "stress_before_vowel"
    /\ UNCHANGED <<given, text, check_accent, tokens, pronuns, result>>

\* lines 256
StressBeforeVowel ==
    /\ pc = "stress_before_vowel"
    /\ phonetic' = stress_before_vowel(phonetic)
    /\ pc' = "monosyllabic"
    /\ UNCHANGED <<given, text, check_accent, tokens, pronuns, result>>

\* lines 265-267
Monosyllabic ==
    /\ pc = "monosyllabic"
    /\ phonetic' = monosyllabic(phonetic, check_accent)
    /\ pc' = "palatalize"
    /\ UNCHANGED <<given, text, check_accent, tokens, pronuns, result>>

\* lines 270-276
Palatalize ==
    /\ pc = "palatalize"
    /\ phonetic' = palatalize(phonetic)
    /\ pc' = "simplify_sts"
    /\ UNCHANGED <<given, text, check_accent, tokens, pronuns, result>>

\* lines 282
SimplifySts ==
    /\ pc = "simplify_sts"
    /\ phonetic' = simplify_sts(phonetic)
    /\ pc' = "voice"
    /\ UNCHANGED <<given, text, check_accent, tokens, pronuns, result>>

\* lines 286-289
Voice ==
    /\ pc = "voice"
    /\ phonetic' = voice(phonetic)
    /\ pc' = "soften"
    /\ UNCHANGED <<given, text, check_accent, tokens, pronuns, result>>

\* lines 294-300
Soften ==
    /\ pc = "soften"
    /\ phonetic' = soften(phonetic)
    /\ pc' = "hushing"
    /\ UNCHANGED <<given, text, check_accent, tokens, pronuns, result>>

\* lines 304-307
Hushing ==
    /\ pc = "hushing"
    /\ phonetic' = hushing(phonetic)
    /\ pc' = "hissing"
    /\ UNCHANGED <<given, text, check_accent, tokens, pronuns, result>>

\* lines 313-318
Hissing ==
    /\ pc = "hissing"
    /\ phonetic' = hissing(phonetic)
    /\ pc' = "depalatalize"
    /\ UNCHANGED <<given, text, check_accent, tokens, pronuns, result>>

\* lines 321-323
Depalatalize ==
    /\ pc = "depalatalize"
    /\ phonetic' = depalatalize(phonetic)
    /\ pc' = "reduce_a_u"
    /\ UNCHANGED <<given, text, check_accent, tokens, pronuns, result>>

\* lines 326-328
ReduceAU ==
    /\ pc = "reduce_a_u"
    /\ phonetic' = reduce_a_u(phonetic)
    /\ pc' = "raise_o"
    /\ UNCHANGED <<given, text, check_accent, tokens, pronuns, result>>

\* lines 330
RaiseO ==
    /\ pc = "raise_o"
    /\ phonetic' = raise_o(phonetic)
    /\ pc' = "reduce_e"
    /\ UNCHANGED <<given, text, check_accent, tokens, pronuns, result>>

\* lines 332
ReduceE ==
    /\ pc = "reduce_e"
    /\ phonetic' = reduce_e(phonetic)
    /\ pc' = "remove_undertie"
    /\ UNCHANGED <<given, text, check_accent, tokens, pronuns, result>>

\* lines 338
RemoveUndertie ==
    /\ pc = "remove_undertie"
    /\ phonetic' = remove_undertie(phonetic)
    /\ pc' = "v_allophones"
    /\ UNCHANGED <<given, text, check_accent, tokens, pronuns, result>>

\* lines 341-352
VAllophones ==
    /\ pc = "v_allophones"
    /\ phonetic' = v_allophones(phonetic)
    /\ pc' = "j_allophones"
    /\ UNCHANGED <<given, text, check_accent, tokens, pronuns, result>>

\* lines 355-359
JAllophones ==
    /\ pc = "j_allophones"
    /\ phonetic' = j_allophones(phonetic)
    /\ pc' = "remove_apostrophe"
    /\ UNCHANGED <<given, text, check_accent, tokens, pronuns, result>>

\* lines 362
RemoveApostrophe ==
    /\ pc = "remove_apostrophe"
    /\ phonetic' = remove_apostrophe(phonetic)
    /\ pc' = "stress_step1"
    /\ UNCHANGED <<given, text, check_accent, tokens, pronuns, result>>

\* lines 365
StressStep1 ==
    /\ pc = "stress_step1"
    /\ phonetic' = stress_step1(phonetic)
    /\ pc' = "stress_step2"
    /\ UNCHANGED <<given, text, check_accent, tokens, pronuns, result>>

\* lines 367
StressStep2 ==
    /\ pc = "stress_step2"
    /\ phonetic' = stress_step2(phonetic)
    /\ pc' = "stress_step3"
    /\ UNCHANGED <<given, text, check_accent, tokens, pronuns, result>>

\* lines 370-382
StressStep3 ==
    /\ pc = "stress_step3"
    /\ phonetic' = stress_step3(phonetic)
    /\ pc' = "stress_step4"
    /\ UNCHANGED <<given, text, check_accent, tokens, pronuns, result>>

\* lines 384-385
StressStep4 ==
    /\ pc = "stress_step4"
    /\ phonetic' = stress_step4(phonetic)
    /\ pc' = "stress_step5"
    /\ UNCHANGED <<given, text, check_accent, tokens, pronuns, result>>

\* lines 387
StressStep5 ==
    /\ pc = "stress_step5"
    /\ phonetic' = stress_step5(phonetic)
    /\ pc' = "stress_step6"
    /\ UNCHANGED <<given, text, check_accent, tokens, pronuns, result>>

\* lines 389
StressStep6 ==
    /\ pc = "stress_step6"
    /\ phonetic' = stress_step6(phonetic)
    /\ pc' = "merge_pal_long"
    /\ UNCHANGED <<given, text, check_accent, tokens, pronuns, result>>

\* lines 391
MergePalLong ==
    /\ pc = "merge_pal_long"
    /\ phonetic' = merge_pal_long(phonetic)
    /\ pc' = "dark_l"
    /\ UNCHANGED <<given, text, check_accent, tokens, pronuns, result>>

\* lines 394
DarkL ==
    /\ pc = "dark_l"
    /\ phonetic' = dark_l(phonetic)
    /\ pc' = "append"
    /\ UNCHANGED <<given, text, check_accent, tokens, pronuns, result>>

AppendPronun ==
    /\ pc = "append"
    /\ pronuns' = Append(pronuns, phonetic)
    /\ pc' = "for"
    /\ UNCHANGED <<given, text, check_accent, tokens, phonetic, result>>

Return ==
    /\ pc = "for"
    /\ tokens = <<>>
    /\ result' = join(pronuns)
    /\ pc' = "done"
    /\ UNCHANGED <<given, text, check_accent, tokens, phonetic, pronuns>>

Next ==
    \/ Normalize \/ RaiseAccentIsMissing \/ AccentPresent
    \/ CanonicalizeSpaces \/ Split \/ Wrap
    \/ Orthographic \/ RemapApostrophe \/ MapChars \/ StressBeforeVowel \/ Monosyllabic
    \/ Palatalize \/ SimplifySts \/ Voice \/ Soften \/ Hushing
    \/ Hissing \/ Depalatalize \/ ReduceAU \/ RaiseO \/ ReduceE
    \/ RemoveUndertie \/ VAllophones \/ JAllophones \/ RemoveApostrophe \/ StressStep1
    \/ StressStep2 \/ StressStep3 \/ StressStep4 \/ StressStep5 \/ StressStep6
    \/ MergePalLong \/ DarkL
    \/ AppendPronun \/ Return

\* the states a call starts in, for the set S of arguments
InitWith(S) ==
    /\ given \in S
    /\ text = given
    /\ check_accent \in BOOLEAN
    /\ pc = "start"
    /\ tokens = <<>>
    /\ phonetic = <<>>
    /\ pronuns = <<>>
    /\ result = <<>>

\* all the texts over the alphabet A of at most n code points
RECURSIVE Texts(_, _)
Texts(A, n) ==
    IF n = 0 THEN {<<>>}
    ELSE LET shorter == Texts(A, n - 1)
         IN  shorter \cup {Append(t, c) : t \in shorter, c \in A}

\* all the concatenations of at most n of the units U
RECURSIVE UnitTexts(_, _)
UnitTexts(U, n) ==
    IF n = 0 THEN {<<>>}
    ELSE LET shorter == UnitTexts(U, n - 1)
         IN  shorter \cup {t \o u : t \in shorter, u \in U}

MaxLen == 4

ContainsSeq(s, w) ==
    \E i \in 1..(Len(s) - Len(w) + 1) : SubSeq(s, i, i + Len(w) - 1) = w

(***************************************************************************)
(* C1: the accent check.                                                   *)
(***************************************************************************)
AccentAlphabet == {"cy_a", "CY_U", "cy_t", "acute", "CY_Y_grave", " "}

SpecAccent == InitWith(Texts(AccentAlphabet, MaxLen)) /\ [][Next]_vars

\* the code points that are, or decompose to, a combining acute or grave
AccentCarrier ==
    {"acute", "grave", "cy_e_grave", "CY_E_grave", "cy_y_grave", "CY_Y_grave"}

\* the vowel letters in either case
VowelLetterAnyCase ==
    {"cy_a", "cy_e", "cy_ye", "cy_y", "cy_i", "cy_yi", "cy_o", "cy_u",
     "cy_yu", "cy_ya", "CY_A", "CY_E", "CY_YE", "CY_Y", "CY_I", "CY_YI",
     "CY_O", "CY_U", "CY_YU", "CY_YA"}

MustRaise ==
    /\ check_accent
    /\ \A i \in 1..Len(given) : given[i] \notin AccentCarrier
    /\ Cardinality({i \in 1..Len(given) : given[i] \in VowelLetterAnyCase}) > 1

\* C1: ipa raises AccentIsMissing exactly when check_accent is set, the
\* argument (graves decomposed, lower-cased) holds no combining acute or
\* grave and it holds more than one vowel letter; in every other case the
\* call passes the check, and what it returns is a string.
C1_RaisesIffAccentMissing ==
    /\ pc = "raised" => MustRaise
    /\ pc \notin {"start", "check_accent", "raised"} => ~MustRaise
    /\ pc = "done" => result \in Seq(STRING)

C1_Witness ==
    /\ pc = "raised"
    /\ given = <<"CY_U", "cy_t", "cy_a">>

(***************************************************************************)
(* C2: the private markers never reach the output.                         *)
(***************************************************************************)
MarkerAlphabet == {"#", "%", "'", "undertie", "cy_a", "cy_l"}

SpecMarkers == InitWith(Texts(MarkerAlphabet, MaxLen)) /\ [][Next]_vars

\* C2: a returned string holds no boundary sentinel #, no apostrophe
\* placeholder % and no monosyllabic-stress marker (undertie), also when
\* the argument holds them or an ASCII apostrophe.
C2_NoMarkersInOutput ==
    pc = "done" =>
        \A i \in 1..Len(result) : result[i] \notin {"#", "%", "undertie"}

C2_Witness ==
    /\ pc = "done"
    /\ check_accent
    /\ given = <<"'", "cy_a", "%", "undertie">>
    /\ result = <<"a">>

(***************************************************************************)
(* C3: the demonstration words of the source, an accent put anywhere.      *)
(***************************************************************************)
demo_words == {
    <<"CY_S", "cy_l", "cy_a", "cy_v", "cy_a">>,
    <<"CY_U", "cy_k", "cy_r", "cy_a", "cy_yi", "cy_n", "cy_i">>,
    <<"cy_s", "cy_m", "cy_e", "cy_r", "cy_t", "cy_soft">>,
    <<"cy_v", "cy_o", "cy_r", "cy_o", "cy_h", "cy_a", "cy_m">>,
    <<"cy_o", "cy_s", "cy_t", "cy_z", "cy_e", "cy_j", "cy_ts", "cy_i">> }

\* the word w with the accent a put after its first n letters (none: n = 0)
Accented(w, n, a) ==
    IF n = 0 THEN w ELSE SubSeq(w, 1, n) \o <<a>> \o SubSeq(w, n + 1, Len(w))

SpecWords ==
    /\ InitWith(UNION {{Accented(w, n, a) : n \in 0..Len(w), a \in {ACUTE, GRAVE}} :
                           w \in demo_words})
    /\ [][Next]_vars

Slava == <<"CY_S", "cy_l", "cy_a", ACUTE, "cy_v", "cy_a">>

\* C3 as stated: the word Slava with an acute on its first vowel
\* is transcribed with both vowels reduced.
C3_SlavaAsClaimed ==
    (pc = "done" /\ given = Slava /\ check_accent) =>
        result = <<"primary", "s", "darkl", "turneda", "vhook", "turneda">>

\* C3 as amended: the stressed vowel keeps its quality, only the unstressed
\* one is reduced.
C3_Slava ==
    (pc = "done" /\ given = Slava /\ check_accent) =>
        result = <<"primary", "s", "darkl", "a", "vhook", "turneda">>

C3_Witness == pc = "done" /\ given = Slava /\ check_accent

(***************************************************************************)
(* C4: the letters t, soft sign, s in a row, inside one token.             *)
(***************************************************************************)
MaxPre == 1
MaxPost == 2

TsyaLetters == {"cy_s", "cy_t", "cy_soft", "cy_ya", "acute"}

tsya_letters == <<"cy_t", "cy_soft", "cy_s">>
tsya_phones == <<"t", "tie", "s", "pal", "long">>

SpecTsya ==
    /\ InitWith({pre \o tsya_letters \o post :
                    pre \in Texts(TsyaLetters, MaxPre),
                    post \in Texts(TsyaLetters, MaxPost)})
    /\ [][Next]_vars

IsOneToken(t) == \A i \in 1..Len(t) : t[i] \notin whitespace \cup {"-"}

\* C4 as stated: whatever stands around the three letters, the returned
\* transcription of the token holds the long soft affricate.
C4_TsyaAsClaimed ==
    (pc = "done" /\ IsOneToken(given) /\ ContainsSeq(given, tsya_letters)) =>
        ContainsSeq(result, tsya_phones)

\* the three letters at position i of t, not after t, s or ts, and before a
\* vowel letter or the end of the token
PlainTsyaAt(t, i) ==
    /\ i + 2 <= Len(t)
    /\ SubSeq(t, i, i + 2) = tsya_letters
    /\ i > 1 => t[i - 1] \notin {"cy_t", "cy_s", "cy_ts"}
    /\ i + 3 <= Len(t) => t[i + 3] \in vowel_letter

C4_Step ==
    /\ pc = "map_chars" =>
          \A i \in 1..Len(phonetic) :
              (i + 2 <= Len(phonetic) /\ SubSeq(phonetic, i, i + 2) = tsya_letters)
              => phonetic' = map_chars(SubSeq(phonetic, 1, i - 1))
                                 \o tsya_phones
                                 \o map_chars(SubSeq(phonetic, i + 3, Len(phonetic)))
    /\ (pc' = "done" /\ IsOneToken(given)
            /\ \E i \in 1..Len(given) : PlainTsyaAt(given, i))
          => ContainsSeq(result', tsya_phones)

\* C4 as amended: the mapper turns every t, soft sign, s that the
\* orthographic simplifier has left in the buffer into the long soft
\* affricate, at its place (the three-character table runs first); and the
\* returned transcription still holds it when the t does not follow t, s or
\* ts and the s is followed by a vowel letter or ends the token.
C4_Tsya == [][C4_Step]_vars

C4_Witness ==
    /\ pc = "done"
    /\ given = <<"cy_t", "cy_soft", "cy_s", "cy_ya", "acute">>
    /\ result = <<"primary", "t", "tie", "s", "pal", "long", "a">>

(***************************************************************************)
(* C5: step 3 of the stress repositioning.                                 *)
(***************************************************************************)
OnsetUnits ==
    {<<"cy_s">>, <<"cy_t">>, <<"cy_r">>, <<"cy_g">>, <<"cy_a">>,
     <<"cy_a", ACUTE>>}

SpecOnset == InitWith(UnitTexts(OnsetUnits, MaxLen)) /\ [][Next]_vars

\* the onsets C5 names, in the symbols the mapper produces
ClaimedOnset3 == {
    <<"s", "p", "r">>, <<"s", "t", "r">>, <<"s", "k", "r">>,
    <<"s", "p", "l">>, <<"s", "k", "l">> }

ClaimedOnset2 == {
    <<"s", "p">>, <<"s", "t">>, <<"s", "k">>, <<"s", "f">>, <<"s", "x">>,
    <<"p", "r">>, <<"b", "r">>, <<"t", "r">>, <<"d", "r">>, <<"k", "r">>,
    <<"scriptg", "r">>, <<"hookh", "r">>, <<"f", "r">>, <<"x", "r">>,
    <<"p", "l">>, <<"b", "l">>, <<"k", "l">>, <<"scriptg", "l">>,
    <<"hookh", "l">>, <<"f", "l">>, <<"x", "l">> }

\* s with the mark at position p put before position q instead (q <= p)
MarkMovedTo(s, p, q) ==
    SubSeq(s, 1, q - 1) \o <<s[p]>> \o SubSeq(s, q, p - 1)
        \o SubSeq(s, p + 1, Len(s))

\* the place of C1 for the mark at p: the consonant before the mark, its
\* palatalization mark skipped; 0 when there is none
C1Place(s, p) ==
    IF p > 2 /\ s[p - 1] \in consonant THEN p - 1
    ELSE IF p > 3 /\ s[p - 1] = "pal" /\ s[p - 2] \in consonant THEN p - 2
    ELSE 0

\* the place of X: the character before C1, its palatalization mark skipped
XPlace(s, c1) == IF c1 > 2 /\ s[c1 - 1] = "pal" THEN c1 - 2 ELSE c1 - 1

\* where C5 says the mark at p goes
ClaimedMarkPlace(s, p) ==
    LET c1 == C1Place(s, p)
        x  == XPlace(s, c1)
    IN  IF <<s[x], s[c1], s[p + 1]>> \in ClaimedOnset3 THEN x
        ELSE IF <<s[c1], s[p + 1]>> \in ClaimedOnset2 \/ s[p + 1] = "j" THEN c1
        ELSE p

\* C5 as stated: in a buffer with one stress mark, standing between two
\* consonants C1 and C2 when step 3 starts, step 3 puts the mark before X
\* for a three-consonant onset X C1 C2, else before C1 for a licensed
\* two-consonant onset C1 C2 (scriptg r and scriptg l among them) or for
\* C2 = j, and else leaves it between C1 and C2.
C5_OnsetAsClaimed ==
    [][pc = "stress_step3" =>
          \A p \in 1..(Len(phonetic) - 1) :
              (/\ phonetic[p] \in stress_mark
               /\ CountIn(phonetic, stress_mark, 1) = 1
               /\ phonetic[p + 1] \in consonant
               /\ C1Place(phonetic, p) # 0)
              => phonetic' = MarkMovedTo(phonetic, p, ClaimedMarkPlace(phonetic, p))]_vars

(***************************************************************************)
(* C6: splitting and joining.                                              *)
(***************************************************************************)
DelimAlphabet == {"cy_a", "cy_t", "acute", "-", " ", "nl"}

SpecDelims == InitWith(Texts(DelimAlphabet, MaxLen)) /\ [][Next]_vars

RECURSIVE RunsFrom(_, _, _)
\* the maximal runs of code points of t that are no whitespace and no hyphen
RunsFrom(t, i, cur) ==
    IF i > Len(t) THEN (IF cur = <<>> THEN <<>> ELSE <<cur>>)
    ELSE IF t[i] \in whitespace \cup {"-"}
    THEN (IF cur = <<>> THEN <<>> ELSE <<cur>>) \o RunsFrom(t, i + 1, <<>>)
    ELSE RunsFrom(t, i + 1, Append(cur, t[i]))

RECURSIVE SpaceJoined(_, _)
SpaceJoined(ps, i) ==
    IF i > Len(ps) THEN <<>>
    ELSE (IF i > 1 THEN <<" ">> ELSE <<>>) \o ps[i] \o SpaceJoined(ps, i + 1)

\* C6 as stated: without the accent check, the result is the
\* transcriptions of the tokens (the maximal runs of characters that are
\* no whitespace and no hyphen), in order, with one space between two of
\* them and nothing else added.
C6_JoinAsClaimed ==
    (pc = "done" /\ ~check_accent) =>
        LET toks == RunsFrom(given, 1, <<>>)
        IN  result = SpaceJoined([n \in 1..Len(toks) |-> ipa(toks[n], FALSE)], 1)

(***************************************************************************)
(* C7: the reduction of unstressed a and u.                                *)
(***************************************************************************)
ReduceAlphabet == {"cy_a", "cy_u", "cy_k", "cy_m", "cy_v", "acute"}

SpecReduce == InitWith(Texts(ReduceAlphabet, MaxLen)) /\ [][Next]_vars

Unmarked(s, i) == i = 1 \/ s[i - 1] \notin stress_or_tie

\* C7 as stated: the reduction rules turn every a and every u that
\* is not directly preceded by a stress mark or the undertie into turned a
\* and upsilon, and leave every other character as it is.
C7_ReductionAsClaimed ==
    [][pc = "reduce_a_u" =>
          phonetic' = [i \in 1..Len(phonetic) |->
                          IF phonetic[i] = "a" /\ Unmarked(phonetic, i) THEN "turneda"
                          ELSE IF phonetic[i] = "u" /\ Unmarked(phonetic, i) THEN "upsilon"
                          ELSE phonetic[i]]]_vars

(***************************************************************************)
(* C8: the voicing pass.                                                   *)
(***************************************************************************)
VoicingAlphabet == {"cy_shch", "cy_b", "cy_s", "cy_k", "cy_ts", "cy_a"}

SpecVoicing == InitWith(Texts(VoicingAlphabet, MaxLen)) /\ [][Next]_vars

\* the order 1..n with i and j exchanged
Exchanged(n, i, j) ==
    [k \in 1..n |-> IF k = i THEN j ELSE IF k = j THEN i ELSE k]

\* the voicing pass with the entries of the table taken in the order ord
VoicedInOrder(ord, s) ==
    ApplyRules([n \in 1..Len(ord) |-> voicing_rule(voicing[ord[n]])], 1, s)

\* C8 as stated: the pass puts the table's voiced counterpart in the
\* place of every voiceless entry that stands directly before a voiced
\* obstruent, and exchanging two entries of the table changes nothing.
C8_VoicingAsClaimed ==
    [][pc = "voice" =>
          /\ \A e \in 1..Len(voicing), i \in 1..Len(phonetic) :
                 LET n == Len(voicing[e][1])
                 IN  (/\ i + n <= Len(phonetic)
                      /\ SubSeq(phonetic, i, i + n - 1) = voicing[e][1]
                      /\ phonetic[i + n] \in voiced_obstruent)
                     => SubSeq(phonetic', i, i + n - 1) = voicing[e][2]
          /\ \A i, j \in 1..Len(voicing) :
                 VoicedInOrder(Exchanged(Len(voicing), i, j), phonetic) = phonetic'
      ]_vars

(***************************************************************************)
(* C9: the raising of open o.                                              *)
(***************************************************************************)
RaiseAlphabet == {"cy_o", "cy_m", "cy_yi", "cy_v", "cy_i", "acute"}

SpecRaise == InitWith(Texts(RaiseAlphabet, MaxLen)) /\ [][Next]_vars

\* from i on: a run of consonants, palatalization marks, length marks and
\* tie bars, then a stress mark, then u, i or upsilon
RECURSIVE StressedHighVowelAhead(_, _, _)
StressedHighVowelAhead(s, i, seen) ==
    IF i >= Len(s) THEN FALSE
    ELSE IF s[i] \in consonant \cup {"pal", "long", "tie"}
    THEN StressedHighVowelAhead(s, i + 1, TRUE)
    ELSE seen /\ s[i] \in stress_or_tie /\ s[i + 1] \in {"u", "i", "upsilon"}

\* C9 as stated: open o becomes o exactly where it is unstressed and
\* a run of consonants (vhook and j among them), palatalization and length
\* marks leads from it to a stress mark directly followed by u, i or
\* upsilon; every other character stays.
C9_RaisingAsClaimed ==
    [][pc = "raise_o" =>
          phonetic' = [i \in 1..Len(phonetic) |->
                          IF /\ phonetic[i] = "openo"
                             /\ Unmarked(phonetic, i)
                             /\ StressedHighVowelAhead(phonetic, i + 1, FALSE)
                          THEN "o" ELSE phonetic[i]]]_vars

(***************************************************************************)
(* C10: the stress marks of the output.                                    *)
(***************************************************************************)
StressUnits ==
    {<<"cy_s">>, <<"cy_t">>, <<"cy_r">>, <<"cy_a">>,
     <<"cy_a", ACUTE>>, <<"cy_yi", GRAVE>>}

SpecStress == InitWith(UnitTexts(StressUnits, MaxLen)) /\ [][Next]_vars

ukrainian_letter == vowel_letter \cup cons_bvhgd \cup cons_geminable
                        \cup {"cy_zh", "cy_z", "cy_soft"}

\* Ukrainian letters and accents only, every accent right after a vowel letter
WellAccented(t) ==
    \A i \in 1..Len(t) :
        IF t[i] \in {ACUTE, GRAVE}
        THEN i > 1 /\ t[i - 1] \in vowel_letter
        ELSE t[i] \in ukrainian_letter

Syllabic(s, i) == s[i] \in vowel /\ ~(i < Len(s) /\ s[i + 1] = "nonsyl")

\* what may stand between a stress mark and the vowel of its syllable
OnsetSymbol(s, i) ==
    \/ s[i] \in consonant \cup {"darkl", "v", "pal", "long", "tie", "nonsyl"}
    \/ s[i] \in {"u", "i"} /\ i < Len(s) /\ s[i + 1] = "nonsyl"

Places(s, S) == {i \in 1..Len(s) : s[i] \in S}
Before(P, i) == Cardinality({j \in P : j < i})
SyllabicPlaces(s) == {i \in 1..Len(s) : Syllabic(s, i)}

\* C10: for an argument of Ukrainian letters whose accents each follow a
\* vowel letter, the result holds one primary mark per acute and one
\* secondary mark per grave, in the order of the accents, and each mark
\* stands in the syllable of the vowel that carried its accent: as many
\* vowels precede it as precede that vowel, and only consonant symbols and
\* their modifiers separate it from that vowel.
C10_StressKept ==
    (pc = "done" /\ WellAccented(given)) =>
        LET acc == Places(given, {ACUTE, GRAVE})
            mrk == Places(result, stress_mark)
        IN  /\ Cardinality(mrk) = Cardinality(acc)
            /\ \A p \in mrk :
                 \E a \in acc :
                    /\ Before(acc, a) = Before(mrk, p)
                    /\ result[p] = (IF given[a] = ACUTE THEN "primary" ELSE "secondary")
                    /\ Before(SyllabicPlaces(result), p) + 1
                           = Before(Places(given, vowel_letter), a)
                    /\ \E q \in SyllabicPlaces(result) :
                          /\ q > p
                          /\ \A r \in (p + 1)..(q - 1) : OnsetSymbol(result, r)

C10_Witness ==
    /\ pc = "done"
    /\ given = <<"cy_s", "cy_t", "cy_r", "cy_a", ACUTE>>
    /\ result = <<"primary", "s", "t", "r", "a">>

====
